---- MODULE Spec2Model ----
(***************************************************************************)
(* A model of extract-hashed-minecraft-assets: the archive extractor       *)
(* (jar.rs), the hashed-asset extractor (hashed.rs), the version resolver  *)
(* and the version-mode orchestration (version.rs).                        *)
(*                                                                         *)
(* Paths are sequences of path segments.  Output paths are kept relative   *)
(* to the output directory given on the command line.  Every file-system   *)
(* call and every write to the progress stream can fail; the outcome of    *)
(* each call is an input chosen when the call is made.                     *)
(***************************************************************************)
EXTENDS Integers, Sequences, FiniteSets, TLC

VARIABLES
    mode,           \* which subcommand runs: "jar", "hashed", "version", "parse"
    pc,             \* position in the running subcommand
    result,         \* "none" while running, then "ok", "err" (Err returned) or "panic"
    sel,            \* ExtractedContents {assets, data}
    ignore,         \* ignore_top_level
    jarState,       \* the container file: "ok", "missing" or "corrupt"
    archive,        \* the container's entries, in by_index order
    top_level_dir,  \* Option<PathBuf> found by root_dir
    i,              \* loop index of extract_jar
    jarResult,      \* what extract_jar returned: "none", "ok", "err"
    out,            \* files under the output directory: path -> content
    dirs,           \* directories created under the output directory
    log,            \* every I/O call made so far, in order
    lookup,         \* what the index lookup was given: --index and the listing
    index_file,     \* Option: the index file hashed extraction settled on
    index,          \* IndexFile.objects: logical path -> hash
    store,          \* the readable files of the object store: path -> content
    todo,           \* the index's entries the loop has not come to yet
    attempts,       \* entries the hashed loop has come to (its `i`)
    hashed_output,  \* output_dir of hashed extraction, below the output directory
    hashedResult,   \* what hashed extraction returned: "none", "ok", "err", "panic"
    input,          \* the version specifier given on the command line
    fsDirs,         \* the directories that exist
    minecraft,      \* util::minecraft_dir(): "dir" when it is found, else "none"
    version,        \* the outcome of Version::parse
    files,          \* the version's jar file and manifest file
    cause           \* which check ended the version run early, or "none"

jarVars == <<jarState, archive, top_level_dir, i, jarResult>>

hashedVars == <<lookup, index_file, index, store, todo, attempts, hashed_output, hashedResult>>

versionVars == <<input, fsDirs, minecraft, version, files, cause>>

vars == <<mode, pc, result, sel, ignore, jarState, archive, top_level_dir, i,
          jarResult, out, dirs, log, lookup, index_file, index, store, todo, attempts,
          hashed_output, hashedResult, input, fsDirs, minecraft, version, files, cause>>

----------------------------------------------------------------------------
(* Bounds *)

\* Most entries a container holds.
MaxEntries == 2

\* Most entries an index file holds.
MaxObjects == 2

----------------------------------------------------------------------------
(* Options and paths *)

None == [some |-> FALSE, v |-> <<>>]

Some(x) == [some |-> TRUE, v |-> x]

\* Path::starts_with: whole leading components are compared.
StartsWith(path, prefix) ==
    /\ Len(path) >= Len(prefix)
    /\ SubSeq(path, 1, Len(prefix)) = prefix

\* Path::strip_prefix(prefix).unwrap_or(path)
StripPrefixOr(path, prefix) ==
    IF StartsWith(path, prefix)
        THEN SubSeq(path, Len(prefix) + 1, Len(path))
        ELSE path

\* The non-empty proper prefixes of a path and the path itself: what
\* create_dir_all(path) leaves as directories.
DirsOf(path) == { SubSeq(path, 1, n) : n \in 0..Len(path) }

\* Path::parent of an output path; the parent of the output directory
\* itself lies outside of it.
Parent(path) ==
    IF path = <<>> THEN Some(<<"..">>) ELSE Some(SubSeq(path, 1, Len(path) - 1))

\* The file system under the output directory after `path` got `content`.
WriteFile(fs, path, content) ==
    [p \in DOMAIN fs \cup {path} |-> IF p = path THEN content ELSE fs[p]]

\* One entry of the log of I/O calls: `by` is the extractor making the call,
\* `idx` the number of the entry it is processing (0 outside of a loop).
Event(by, idx, op, path, ok) ==
    [by |-> by, idx |-> idx, op |-> op, path |-> path, ok |-> ok,
     obj |-> <<>>, total |-> 0]

----------------------------------------------------------------------------
(* Index files and the object store *)

\* Hashes are strings of characters: the first two name the bucket.
Hashes == { <<"a", "b", "1">>, <<"c", "d", "2">> }

\* The bytes of the object named by a hash.
ObjectBytes(hash) == IF hash = <<"a", "b", "1">> THEN "O1" ELSE "O2"

\* The object store's layout: objects/<first two characters>/<hash>.
StoredAt(hash) == <<"objects", <<hash[1], hash[2]>>, hash>>

\* The object stores: any of the objects may be missing.
Stores ==
    { [p \in { StoredAt(h) : h \in present } |->
          ObjectBytes(CHOOSE h \in present : StoredAt(h) = p)]
        : present \in SUBSET Hashes }

\* The logical paths index files name.
LogicalPaths == { <<"x">>, <<"y">>, <<"s", "a">> }

\* The parsed index files: up to MaxObjects logical paths, each with a hash.
Indexes ==
    UNION { [keys -> Hashes] :
              keys \in { k \in SUBSET LogicalPaths : Cardinality(k) <= MaxObjects } }

\* No index has been looked for.
NoLookup == [dir |-> FALSE, arg |-> None, listing |-> [ok |-> FALSE, files |-> <<>>]]

\* No hashed extraction has run.
HashedIdle ==
    /\ lookup = NoLookup
    /\ index_file = None
    /\ index = <<>>
    /\ store = <<>>
    /\ todo = {}
    /\ attempts = 0
    /\ hashed_output = <<>>
    /\ hashedResult = "none"

----------------------------------------------------------------------------
(* Version directories *)

\* Absolute paths start with the root "/".
IsAbsolute(path) == path # <<>> /\ path[1] = "/"

\* PathBuf::push: an absolute path replaces the one it is pushed to.
Push(base, path) == IF IsAbsolute(path) THEN path ELSE base \o path

\* Path::file_name: the last component, unless the path ends in `..` or
\* is the root.
file_name(path) ==
    IF path = <<>> \/ path[Len(path)] \in {"..", "/"}
        THEN None
        ELSE Some(path[Len(path)])

\* util::versions_dir(): `versions` below the minecraft directory.
versions_dir(mc) ==
    IF mc = "dir" THEN Some(<<"/", "home", ".minecraft", "versions">>) ELSE None

\* Version::parse with the versions directory looked in first.
Version_parse_VersionsFirst(spec, existing, mc) ==
    LET root == versions_dir(mc)
    IN  IF root.some /\ Push(root.v, spec) \in existing
            THEN [ok |-> TRUE, dir |-> Push(root.v, spec), err |-> <<>>]
        ELSE IF spec \in existing
            THEN [ok |-> TRUE, dir |-> spec, err |-> <<>>]
        ELSE [ok |-> FALSE, dir |-> <<>>, err |-> spec]

\* Version::parse: the specifier itself if it is a directory, else the
\* directory of that name in the versions directory, else InvalidVersion.
Version_parse(spec, existing, mc) ==
    LET root == versions_dir(mc)
    IN  IF spec \in existing
            THEN [ok |-> TRUE, dir |-> spec, err |-> <<>>]
        ELSE IF root.some /\ Push(root.v, spec) \in existing
            THEN [ok |-> TRUE, dir |-> Push(root.v, spec), err |-> <<>>]
        ELSE [ok |-> FALSE, dir |-> <<>>, err |-> spec]

\* Version::jar_file and Version::manifest_file: <dir>/<name>.<ext>, the
\* file name being the sequence of its dot-separated parts.  Version::name
\* panics on a directory without a name.
VersionFile(dir, ext) ==
    IF file_name(dir).some
        THEN Some(Append(dir, <<file_name(dir).v, ext>>))
        ELSE None

\* No version has been parsed.
NoVersion == [ok |-> FALSE, dir |-> <<>>, err |-> <<>>]

NoFiles == [status |-> "none", jar |-> <<>>, manifest |-> <<>>]

\* The version subcommand is not involved.
VersionIdle ==
    /\ input = <<>>
    /\ fsDirs = {}
    /\ minecraft = "none"
    /\ version = NoVersion
    /\ files = NoFiles
    /\ cause = "none"

----------------------------------------------------------------------------
(* Containers *)

File(segs, data) == [name |-> segs, is_dir |-> FALSE, data |-> data]

Dir(segs) == [name |-> segs, is_dir |-> TRUE, data |-> ""]

\* The entries containers are built from.  "root" stands for a version
\* folder such as `1.20.1`; `assets/../../x` is a name that is not enclosed.
EntryPool ==
    { File(<<"assets", "x">>, "J1"),
      File(<<"data", "y">>, "J2"),
      File(<<"assets", "assets", "x">>, "J3"),
      File(<<"root", "assets", "x">>, "J4"),
      File(<<"root", "data", "y">>, "J5"),
      File(<<"z">>, "J6"),
      File(<<"assets", "..", "..", "x">>, "J7"),
      File(<<"assets", "..", "x">>, "J8"),
      File(<<"/", "assets", "x">>, "J9"),
      Dir(<<"root">>),
      Dir(<<"assets">>),
      Dir(<<"data", "d">>) }

\* Containers: up to MaxEntries distinct entries in any order.
Archives ==
    { a \in UNION { [1..n -> EntryPool] : n \in 0..MaxEntries } :
        \A j, k \in DOMAIN a : j # k => a[j] # a[k] }

Selections == [assets : BOOLEAN, data : BOOLEAN]

\* ZipFile::enclosed_name: None for an absolute name and for one that
\* climbs above the container's root through `..`; any other name comes
\* back as it is stored, its `..` segments included.
enclosed_name(name) ==
    IF IsAbsolute(name) THEN None
    ELSE IF \E n \in 1..Len(name) :
           Cardinality({k \in 1..n : name[k] = ".."})
             > Cardinality({k \in 1..n : name[k] # ".."})
        THEN None
        ELSE Some(name)

\* ZipArchive::root_dir: the one directory every entry lies in, if any.
\* A name that is not enclosed, a file at the top level, or two different
\* first components mean there is none.
root_dir(entries) ==
    LET idx == DOMAIN entries
        firsts == { entries[k].name[1] : k \in idx }
    IN  IF \E k \in idx : ~enclosed_name(entries[k].name).some
            THEN None
        ELSE IF \E k \in idx : Len(entries[k].name) = 1 /\ ~entries[k].is_dir
            THEN None
        ELSE IF Cardinality(firsts) = 1
            THEN Some(<<CHOOSE f \in firsts : TRUE>>)
        ELSE None

----------------------------------------------------------------------------
(* extract_jar *)

\* Classify with the subtree's own folder kept whatever ignore_top_level is.
Classify_KeepSubtree(path, contents, ignore_top_level) ==
    IF contents.assets /\ StartsWith(path, <<"assets">>) THEN Some(path)
    ELSE IF contents.data /\ StartsWith(path, <<"data">>) THEN Some(path)
    ELSE None

\* The `match (assets, data)` of extract_jar: the path the entry is
\* extracted to, or None for an entry that is skipped.
Classify(path, contents, ignore_top_level) ==
    IF contents.assets /\ StartsWith(path, <<"assets">>)
        THEN Some(IF ignore_top_level
                     THEN StripPrefixOr(path, <<"assets">>)
                     ELSE path)
    ELSE IF contents.data /\ StartsWith(path, <<"data">>)
        THEN Some(IF ignore_top_level
                     THEN StripPrefixOr(path, <<"data">>)
                     ELSE path)
    ELSE None

\* StripTopLevel with the top-level directory left in place.
StripTopLevel_Keep(path, top) == path

\* The entry's path with the container's top-level directory removed.
StripTopLevel(path, top) ==
    IF top.some THEN StripPrefixOr(path, top.v) ELSE path

\* The path extract_jar writes entry `e` to, or None when it skips it.
OutputPath(e, top, contents, ignore_top_level) ==
    LET en == enclosed_name(e.name)
    IN  IF ~en.some
            THEN None
            ELSE Classify(StripTopLevel(en.v, top), contents, ignore_top_level)

\* The calls an iteration can fail in; at most one fails, as the first
\* failure ends the pass.
JarFailures == {"none", "by_index", "stdout", "mkdir", "create", "copy", "chmod"}

\* One iteration of the loop of extract_jar on entry number idx: the calls
\* made, the file system afterwards, and whether the loop goes on.
ProcessEntry(e, idx, fail, has_mode) ==
    LET target == OutputPath(e, top_level_dir, sel, ignore)
        path == target.v
        ev(op, p, ok) == Event("jar", idx, op, p, ok)
        stay(events, ok) == [ok |-> ok, events |-> events, out |-> out, dirs |-> dirs]
        progress == <<ev("progress", path, TRUE)>>
        parent == Parent(path).v
        perms(events, o, d) ==
            IF ~has_mode
                THEN [ok |-> TRUE, events |-> events, out |-> o, dirs |-> d]
            ELSE IF fail = "chmod"
                THEN [ok |-> FALSE, events |-> events \o <<ev("chmod", path, FALSE)>>,
                      out |-> o, dirs |-> d]
            ELSE [ok |-> TRUE, events |-> events \o <<ev("chmod", path, TRUE)>>,
                  out |-> o, dirs |-> d]
    IN  IF fail = "by_index" THEN stay(<<ev("by_index", <<>>, FALSE)>>, FALSE)
        ELSE IF ~target.some THEN stay(<<>>, TRUE)
        ELSE IF fail = "stdout" THEN stay(<<ev("progress", path, FALSE)>>, FALSE)
        ELSE IF e.is_dir
            THEN IF fail = "mkdir"
                    THEN stay(progress \o <<ev("mkdir", path, FALSE)>>, FALSE)
                    ELSE perms(progress \o <<ev("mkdir", path, TRUE)>>,
                               out, dirs \cup DirsOf(path))
        ELSE IF fail = "mkdir"
            THEN stay(progress \o <<ev("mkdir", parent, FALSE)>>, FALSE)
        ELSE LET made == progress \o <<ev("mkdir", parent, TRUE)>>
                 d == dirs \cup DirsOf(parent)
             IN  IF fail = "create"
                     THEN [ok |-> FALSE, events |-> made \o <<ev("create", path, FALSE)>>,
                           out |-> out, dirs |-> d]
                 ELSE IF fail = "copy"
                     THEN [ok |-> FALSE,
                           events |-> made \o <<ev("create", path, TRUE),
                                                 ev("copy", path, FALSE)>>,
                           out |-> WriteFile(out, path, "partial"), dirs |-> d]
                 ELSE perms(made \o <<ev("create", path, TRUE), ev("copy", path, TRUE)>>,
                            WriteFile(out, path, e.data), d)

\* ExtractJarOpen with the container opened before the selection is looked at.
ExtractJarOpen_OpenFirst ==
    /\ pc = "jar_start"
    /\ IF jarState # "ok"
           THEN /\ jarResult' = "err"
                /\ pc' = "jar_ret"
                /\ log' = Append(log, Event("jar", 0, "open", <<>>, FALSE))
                /\ UNCHANGED top_level_dir
       ELSE IF ~sel.assets /\ ~sel.data
           THEN /\ jarResult' = "ok"
                /\ pc' = "jar_ret"
                /\ log' = Append(log, Event("jar", 0, "open", <<>>, TRUE))
                /\ UNCHANGED top_level_dir
       ELSE /\ top_level_dir' = root_dir(archive)
            /\ pc' = "jar_loop"
            /\ log' = Append(log, Event("jar", 0, "open", <<>>, TRUE))
            /\ UNCHANGED jarResult
    /\ i' = 0
    /\ UNCHANGED <<mode, result, sel, ignore, jarState, archive, out, dirs>>
    /\ UNCHANGED hashedVars
    /\ UNCHANGED versionVars

\* extract_jar up to its loop: the early return on an empty selection,
\* opening the container and finding its top-level directory.
ExtractJarOpen ==
    /\ pc = "jar_start"
    /\ IF ~sel.assets /\ ~sel.data
           THEN /\ jarResult' = "ok"
                /\ pc' = "jar_ret"
                /\ UNCHANGED <<top_level_dir, log>>
       ELSE IF jarState # "ok"
           THEN /\ jarResult' = "err"
                /\ pc' = "jar_ret"
                /\ log' = Append(log, Event("jar", 0, "open", <<>>, FALSE))
                /\ UNCHANGED top_level_dir
       ELSE /\ top_level_dir' = root_dir(archive)
            /\ pc' = "jar_loop"
            /\ log' = Append(log, Event("jar", 0, "open", <<>>, TRUE))
            /\ UNCHANGED jarResult
    /\ i' = 0
    /\ UNCHANGED <<mode, result, sel, ignore, jarState, archive, out, dirs>>
    /\ UNCHANGED hashedVars
    /\ UNCHANGED versionVars

\* ExtractJarEntry with a failing entry skipped and the loop going on.
ExtractJarEntry_SkipFailed ==
    /\ pc = "jar_loop"
    /\ i < Len(archive)
    /\ \E fail \in JarFailures, has_mode \in BOOLEAN :
          LET r == ProcessEntry(archive[i + 1], i + 1, fail, has_mode)
          IN  /\ log' = log \o r.events
              /\ out' = r.out
              /\ dirs' = r.dirs
              /\ i' = i + 1
              /\ UNCHANGED <<pc, jarResult>>
    /\ UNCHANGED <<mode, result, sel, ignore, jarState, archive, top_level_dir>>
    /\ UNCHANGED hashedVars
    /\ UNCHANGED versionVars

\* One iteration of `for i in 0..archive.len()`.
ExtractJarEntry ==
    /\ pc = "jar_loop"
    /\ i < Len(archive)
    /\ \E fail \in JarFailures, has_mode \in BOOLEAN :
          LET r == ProcessEntry(archive[i + 1], i + 1, fail, has_mode)
          IN  /\ log' = log \o r.events
              /\ out' = r.out
              /\ dirs' = r.dirs
              /\ IF r.ok
                    THEN i' = i + 1 /\ UNCHANGED <<pc, jarResult>>
                    ELSE pc' = "jar_ret" /\ jarResult' = "err" /\ UNCHANGED i
    /\ UNCHANGED <<mode, result, sel, ignore, jarState, archive, top_level_dir>>
    /\ UNCHANGED hashedVars
    /\ UNCHANGED versionVars

\* The loop has run through every entry: Ok(()).
ExtractJarEnd ==
    /\ pc = "jar_loop"
    /\ i >= Len(archive)
    /\ pc' = "jar_ret"
    /\ jarResult' = "ok"
    /\ UNCHANGED <<mode, result, sel, ignore, jarState, archive, top_level_dir, i,
                   out, dirs, log>>
    /\ UNCHANGED hashedVars
    /\ UNCHANGED versionVars

\* JarSubcommand::execute returns what extract_jar returned.
JarSubcommandReturn ==
    /\ mode = "jar"
    /\ pc = "jar_ret"
    /\ pc' = "done"
    /\ result' = jarResult
    /\ UNCHANGED <<mode, sel, ignore, jarState, archive, top_level_dir, i,
                   jarResult, out, dirs, log>>
    /\ UNCHANGED hashedVars
    /\ UNCHANGED versionVars

\* A run of the `jar` subcommand on any container, selection and flag.
InitJar ==
    /\ mode = "jar"
    /\ pc = "jar_start"
    /\ result = "none"
    /\ sel \in Selections
    /\ ignore \in BOOLEAN
    /\ jarState \in {"ok", "missing", "corrupt"}
    /\ archive \in Archives
    /\ jarState # "ok" => archive = <<>>
    /\ top_level_dir = None
    /\ i = 0
    /\ jarResult = "none"
    /\ out = <<>>
    /\ dirs = {}
    /\ log = <<>>
    /\ HashedIdle
    /\ VersionIdle

NextJar ==
    \/ ExtractJarOpen
    \/ ExtractJarEntry
    \/ ExtractJarEnd
    \/ JarSubcommandReturn

SpecJar == InitJar /\ [][NextJar]_vars

----------------------------------------------------------------------------
(* Hashed extraction *)

\* Object::parent_dir with the slice taken one character too late.
parent_dir_Shifted(hash) == SubSeq(hash, 2, 3)

\* Object::parent_dir: the first two characters of the hash.
parent_dir(hash) == SubSeq(hash, 1, 2)

\* Object::hashed_file_path: <parent_dir>/<hash>.
hashed_file_path(hash) == <<parent_dir(hash), hash>>

\* A directory argument: absent, an existing directory, or a path that
\* is no directory.
DirArgs == {"none", "dir", "notdir"}

\* `explicit.or_else(|| default).filter(|path| path.is_dir())`: whether a
\* directory comes out of it.
ResolveDir(explicit, default) ==
    (IF explicit # "none" THEN explicit ELSE default) = "dir"

\* The --index argument after IndexVersion::parse: absent, a path that is
\* a file, or anything else taken as a version label (the dot-separated
\* parts of the string).
IndexArgs ==
    { None,
      Some([kind |-> "file", label |-> <<"explicit">>]),
      Some([kind |-> "version", label |-> <<"7">>]),
      Some([kind |-> "version", label |-> <<"9">>]),
      Some([kind |-> "version", label |-> <<"1", "16">>]) }

\* What read_dir finds in the indexes directory: an error, or the names of
\* its entries in the order the file system lists them.
Listings ==
    { [ok |-> FALSE, files |-> <<>>],
      [ok |-> TRUE, files |-> <<>>],
      [ok |-> TRUE, files |-> << <<"7", "json">> >>],
      [ok |-> TRUE, files |-> << <<"7", "json">>, <<"8", "json">> >>],
      [ok |-> TRUE, files |-> << <<"1", "16", "json">>, <<"readme">> >>] }

\* format!("{version}.json"): `.json` is added to the label as it is.
IndexName(label) == label \o <<"json">>

\* indexes_dir.join(name).
IndexPath(name) == <<"indexes", name>>

\* path.is_file() on a name in the indexes directory.
IsIndexFile(name, listing) ==
    listing.ok /\ \E k \in 1..Len(listing.files) : listing.files[k] = name

\* SelectIndexFile with the listing's last entry taken when the label
\* names no file.
SelectIndexFile_Fallback(arg, listing) ==
    IF arg.some /\ arg.v.kind = "file"
        THEN [status |-> "ok", file |-> Some(<<"given", arg.v.label>>)]
    ELSE IF arg.some /\ IsIndexFile(IndexName(arg.v.label), listing)
        THEN [status |-> "ok", file |-> Some(IndexPath(IndexName(arg.v.label)))]
    ELSE IF ~listing.ok THEN [status |-> "err", file |-> None]
    ELSE IF listing.files = <<>> THEN [status |-> "panic", file |-> None]
    ELSE [status |-> "ok", file |-> Some(IndexPath(listing.files[Len(listing.files)]))]

\* The `match self.index` of HashedSubcommand::execute: the index file, or
\* how the lookup failed.
SelectIndexFile(arg, listing) ==
    IF ~arg.some
        THEN IF ~listing.ok THEN [status |-> "err", file |-> None]
             ELSE IF listing.files = <<>> THEN [status |-> "panic", file |-> None]
             ELSE [status |-> "ok",
                   file |-> Some(IndexPath(listing.files[Len(listing.files)]))]
    ELSE IF arg.v.kind = "file"
        THEN [status |-> "ok", file |-> Some(<<"given", arg.v.label>>)]
    ELSE IF IsIndexFile(IndexName(arg.v.label), listing)
        THEN [status |-> "ok", file |-> Some(IndexPath(IndexName(arg.v.label)))]
    ELSE [status |-> "panic", file |-> None]

\* HashedSubcommand::execute up to the index file: the input directory,
\* the output directory and the index file to use.
HashedSetup ==
    /\ pc = "h_start"
    /\ \E explicit \in DirArgs, default \in DirArgs,
          arg \in IndexArgs, listing \in Listings :
          LET found == SelectIndexFile(arg, listing)
          IN  IF ~ResolveDir(explicit, default)
                  THEN /\ lookup' = [dir |-> FALSE, arg |-> arg, listing |-> listing]
                       /\ hashedResult' = "panic"
                       /\ pc' = "h_ret"
                       /\ UNCHANGED <<index_file, hashed_output>>
              ELSE IF found.status # "ok"
                  THEN /\ lookup' = [dir |-> TRUE, arg |-> arg, listing |-> listing]
                       /\ hashedResult' = found.status
                       /\ pc' = "h_ret"
                       /\ hashed_output' = IF ignore THEN <<>> ELSE <<"assets">>
                       /\ UNCHANGED index_file
              ELSE /\ lookup' = [dir |-> TRUE, arg |-> arg, listing |-> listing]
                   /\ index_file' = found.file
                   /\ hashed_output' = IF ignore THEN <<>> ELSE <<"assets">>
                   /\ pc' = "h_load"
                   /\ UNCHANGED hashedResult
    /\ UNCHANGED <<mode, result, sel, ignore, out, dirs, log, index, store, todo, attempts>>
    /\ UNCHANGED jarVars
    /\ UNCHANGED versionVars

\* Reading and parsing the index file: an unreadable file is an Err, an
\* unparsable one a panic.  The object store is what it is on disk.
HashedLoadIndex ==
    /\ pc = "h_load"
    /\ \/ /\ \E status \in {"err", "panic"} : hashedResult' = status
          /\ pc' = "h_ret"
          /\ UNCHANGED <<index, store, todo>>
       \/ /\ \E parsed \in Indexes, objects \in Stores :
                /\ index' = parsed
                /\ store' = objects
                /\ todo' = DOMAIN parsed
          /\ pc' = "h_loop"
          /\ UNCHANGED hashedResult
    /\ attempts' = 0
    /\ UNCHANGED <<mode, result, sel, ignore, out, dirs, log, lookup, index_file, hashed_output>>
    /\ UNCHANGED jarVars
    /\ UNCHANGED versionVars

\* ExtractObject with the progress message written after the object is read.
ExtractObject_ReadFirst(file_path, n, stdout_ok, mkdir_ok, write_ok) ==
    LET ev(op, p, ok) == Event("hashed", n, op, p, ok)
        progress(ok) ==
            [ev("progress", file_path, ok) EXCEPT !.total = Cardinality(DOMAIN index)]
        source == <<"objects">> \o hashed_file_path(index[file_path])
        readable == source \in DOMAIN store
        read == [ev("read", file_path, readable) EXCEPT !.obj = source]
        output_file == hashed_output \o file_path
        parent == Parent(output_file).v
    IN  IF ~stdout_ok
            THEN [ok |-> FALSE, events |-> <<read, progress(FALSE)>>,
                  out |-> out, dirs |-> dirs]
        ELSE IF ~readable
            THEN [ok |-> TRUE, events |-> <<read, progress(TRUE)>>,
                  out |-> out, dirs |-> dirs]
        ELSE [ok |-> TRUE,
              events |-> <<read, progress(TRUE), ev("mkdir", parent, mkdir_ok),
                           ev("write", output_file, write_ok)>>,
              out |-> IF write_ok
                         THEN WriteFile(out, output_file, store[source])
                         ELSE out,
              dirs |-> IF mkdir_ok THEN dirs \cup DirsOf(parent) ELSE dirs]

\* One iteration of the loop over index.objects on the entry at
\* `file_path`, the n-th the loop comes to: the calls made, the file system
\* afterwards, and whether the loop goes on.
ExtractObject(file_path, n, stdout_ok, mkdir_ok, write_ok) ==
    LET ev(op, p, ok) == Event("hashed", n, op, p, ok)
        progress(ok) ==
            [ev("progress", file_path, ok) EXCEPT !.total = Cardinality(DOMAIN index)]
        source == <<"objects">> \o hashed_file_path(index[file_path])
        readable == source \in DOMAIN store
        read == [ev("read", file_path, readable) EXCEPT !.obj = source]
        output_file == hashed_output \o file_path
        parent == Parent(output_file).v
    IN  IF ~stdout_ok
            THEN [ok |-> FALSE, events |-> <<progress(FALSE)>>, out |-> out, dirs |-> dirs]
        ELSE IF ~readable
            THEN [ok |-> TRUE, events |-> <<progress(TRUE), read>>,
                  out |-> out, dirs |-> dirs]
        ELSE [ok |-> TRUE,
              events |-> <<progress(TRUE), read, ev("mkdir", parent, mkdir_ok),
                           ev("write", output_file, write_ok)>>,
              out |-> IF write_ok
                         THEN WriteFile(out, output_file, store[source])
                         ELSE out,
              dirs |-> IF mkdir_ok THEN dirs \cup DirsOf(parent) ELSE dirs]

\* HashedExtractEntry with the loop left at the first object that cannot
\* be read.
HashedExtractEntry_StopAtMissing ==
    /\ pc = "h_loop"
    /\ todo # {}
    /\ \E file_path \in todo, stdout_ok, mkdir_ok, write_ok \in BOOLEAN :
          LET r == ExtractObject(file_path, attempts + 1, stdout_ok, mkdir_ok, write_ok)
          IN  /\ log' = log \o r.events
              /\ out' = r.out
              /\ dirs' = r.dirs
              /\ todo' = todo \ {file_path}
              /\ attempts' = attempts + 1
              /\ IF r.ok /\ r.events[Len(r.events)].ok
                    THEN UNCHANGED <<pc, hashedResult>>
                    ELSE pc' = "h_ret" /\ hashedResult' = "err"
    /\ UNCHANGED <<mode, result, sel, ignore, lookup, index_file, index, store, hashed_output>>
    /\ UNCHANGED jarVars
    /\ UNCHANGED versionVars

\* One iteration of `for (i, (file_path, object)) in index.objects.iter()`;
\* the map hands out its entries in an order of its own.
HashedExtractEntry ==
    /\ pc = "h_loop"
    /\ todo # {}
    /\ \E file_path \in todo, stdout_ok, mkdir_ok, write_ok \in BOOLEAN :
          LET r == ExtractObject(file_path, attempts + 1, stdout_ok, mkdir_ok, write_ok)
          IN  /\ log' = log \o r.events
              /\ out' = r.out
              /\ dirs' = r.dirs
              /\ todo' = todo \ {file_path}
              /\ attempts' = attempts + 1
              /\ IF r.ok
                    THEN UNCHANGED <<pc, hashedResult>>
                    ELSE pc' = "h_ret" /\ hashedResult' = "err"
    /\ UNCHANGED <<mode, result, sel, ignore, lookup, index_file, index, store, hashed_output>>
    /\ UNCHANGED jarVars
    /\ UNCHANGED versionVars

\* The loop has come to every entry: Ok(()).
HashedExtractEnd ==
    /\ pc = "h_loop"
    /\ todo = {}
    /\ pc' = "h_ret"
    /\ hashedResult' = "ok"
    /\ UNCHANGED <<mode, result, sel, ignore, out, dirs, log, lookup, index_file, index, store,
                   todo, attempts, hashed_output>>
    /\ UNCHANGED jarVars
    /\ UNCHANGED versionVars

\* HashedSubcommand::execute returns to main.
HashedSubcommandReturn ==
    /\ mode = "hashed"
    /\ pc = "h_ret"
    /\ pc' = "done"
    /\ result' = hashedResult
    /\ UNCHANGED <<mode, sel, ignore, out, dirs, log>>
    /\ UNCHANGED hashedVars
    /\ UNCHANGED jarVars
    /\ UNCHANGED versionVars

\* No container is involved.
JarIdle ==
    /\ jarState = "missing"
    /\ archive = <<>>
    /\ top_level_dir = None
    /\ i = 0
    /\ jarResult = "none"

\* A run of the `hashed` subcommand.
InitHashed ==
    /\ mode = "hashed"
    /\ pc = "h_start"
    /\ result = "none"
    /\ sel = [assets |-> TRUE, data |-> FALSE]
    /\ ignore \in BOOLEAN
    /\ out = <<>>
    /\ dirs = {}
    /\ log = <<>>
    /\ JarIdle
    /\ HashedIdle
    /\ VersionIdle

NextHashed ==
    \/ HashedSetup
    \/ HashedLoadIndex
    \/ HashedExtractEntry
    \/ HashedExtractEnd
    \/ HashedSubcommandReturn

SpecHashed == InitHashed /\ [][NextHashed]_vars

\* A run of either extractor: the `jar` or the `hashed` subcommand.
InitExtract == InitJar \/ InitHashed

NextExtract == NextJar \/ NextHashed

SpecExtract == InitExtract /\ [][NextExtract]_vars

----------------------------------------------------------------------------
(* Version::parse on its own *)

\* The specifiers tried: a bare name, a relative path, an absolute path,
\* the parent directory, and a name found nowhere.
Specifiers ==
    { <<"v1">>, <<"d", "v1">>, <<"/", "opt", "v2">>, <<"..">>, <<"v3">> }

\* The directories that may or may not exist; the parent directory of the
\* working directory always does.
CandidateDirs ==
    { <<"v1">>, <<"d", "v1">>, <<"/", "opt", "v2">>,
      <<"/", "home", ".minecraft", "versions", "v1">>,
      <<"/", "home", ".minecraft", "versions", "d", "v1">>,
      <<"/", "home", ".minecraft", "versions", "v3">> }

\* The command line is parsed: Version::parse on the specifier.
ParseVersionArg ==
    /\ mode = "parse"
    /\ pc = "parse"
    /\ version' = Version_parse(input, fsDirs, minecraft)
    /\ IF version'.ok
          THEN pc' = "parsed" /\ UNCHANGED result
          ELSE pc' = "done" /\ result' = "err"
    /\ UNCHANGED <<mode, sel, ignore, out, dirs, log, input, fsDirs, minecraft, files, cause>>
    /\ UNCHANGED hashedVars
    /\ UNCHANGED jarVars

\* Version::jar_file and Version::manifest_file of the parsed version.
DeriveVersionFiles ==
    /\ mode = "parse"
    /\ pc = "parsed"
    /\ LET jar == VersionFile(version.dir, "jar")
           manifest == VersionFile(version.dir, "json")
       IN  IF jar.some /\ manifest.some
               THEN /\ files' = [status |-> "ok", jar |-> jar.v, manifest |-> manifest.v]
                    /\ result' = "ok"
               ELSE /\ files' = [status |-> "panic", jar |-> <<>>, manifest |-> <<>>]
                    /\ result' = "panic"
    /\ pc' = "done"
    /\ UNCHANGED <<mode, sel, ignore, out, dirs, log, input, fsDirs, minecraft, version, cause>>
    /\ UNCHANGED hashedVars
    /\ UNCHANGED jarVars

\* Version::parse on any specifier in any file system.
InitParse ==
    /\ mode = "parse"
    /\ pc = "parse"
    /\ result = "none"
    /\ sel = [assets |-> TRUE, data |-> FALSE]
    /\ ignore = FALSE
    /\ out = <<>>
    /\ dirs = {}
    /\ log = <<>>
    /\ JarIdle
    /\ HashedIdle
    /\ input \in Specifiers
    /\ fsDirs \in { d \cup {<<"..">>} : d \in SUBSET CandidateDirs }
    /\ minecraft \in {"dir", "none"}
    /\ version = NoVersion
    /\ files = NoFiles
    /\ cause = "none"

NextParse ==
    \/ ParseVersionArg
    \/ DeriveVersionFiles

SpecParse == InitParse /\ [][NextParse]_vars

----------------------------------------------------------------------------
(* VersionSubcommand::execute *)

\* What reading and parsing the manifest gives: no such file, a document
\* without a usable `assets` field, or the index version it names (the
\* dot-separated parts of the string).
Manifests ==
    { [status |-> "missing", index_version |-> <<>>],
      [status |-> "malformed", index_version |-> <<>>],
      [status |-> "ok", index_version |-> <<"7">>],
      [status |-> "ok", index_version |-> <<"1", "16">>] }

\* PathBuf::set_extension: the part after the file name's last dot is
\* replaced; a name without a dot gets the extension added.
set_extension(name, ext) ==
    IF Len(name) > 1
        THEN SubSeq(name, 1, Len(name) - 1) \o <<ext>>
        ELSE name \o <<ext>>

\* The index file the version run requires:
\* [hashed_assets_dir, "indexes", index_version] with set_extension("json").
RequiredIndex(index_version) == <<"indexes", set_extension(index_version, "json")>>

\* The run ends here: with Ok, with an Err or with a panic.
VersionEnds(how, why) ==
    /\ pc' = "done"
    /\ result' = how
    /\ cause' = why
    /\ UNCHANGED <<index_file, files>>

\* VersionPrepare with the manifest and the index file left unlooked at.
VersionPrepare_NoIndexCheck ==
    /\ mode = "version"
    /\ pc = "v_start"
    /\ IF ~sel.assets /\ ~sel.data
          THEN VersionEnds("ok", "none")
          ELSE \E explicit \in DirArgs, default \in DirArgs :
                 LET jar == VersionFile(version.dir, "jar")
                 IN  IF ~ResolveDir(explicit, default)
                         THEN VersionEnds("panic", "no_hashed_dir")
                     ELSE /\ files' = [status |-> "ok", jar |-> jar.v, manifest |-> <<>>]
                          /\ pc' = "jar_start"
                          /\ UNCHANGED <<result, cause, index_file>>
    /\ UNCHANGED <<mode, sel, ignore, out, dirs, log, lookup, index, store, todo, attempts,
                   hashed_output, hashedResult, input, fsDirs, minecraft, version>>
    /\ UNCHANGED jarVars

\* VersionSubcommand::execute up to the call of extract_jar: the early
\* return on an empty selection, the manifest (read only if assets are
\* selected), the hashed assets directory, and the index file the manifest
\* names, which must exist.
VersionPrepare ==
    /\ mode = "version"
    /\ pc = "v_start"
    /\ IF ~sel.assets /\ ~sel.data
          THEN VersionEnds("ok", "none")
          ELSE \E manifest \in Manifests, explicit \in DirArgs, default \in DirArgs,
                  index_is_file \in BOOLEAN :
                 LET manifest_file == VersionFile(version.dir, "json")
                     jar == VersionFile(version.dir, "jar")
                 IN  IF sel.assets /\ ~manifest_file.some
                         THEN VersionEnds("panic", "no_name")
                     ELSE IF sel.assets /\ manifest.status # "ok"
                         THEN VersionEnds("err", "manifest")
                     ELSE IF ~ResolveDir(explicit, default)
                         THEN VersionEnds("panic", "no_hashed_dir")
                     ELSE IF sel.assets /\ ~index_is_file
                         THEN VersionEnds("panic", "missing_index")
                     ELSE IF ~jar.some
                         THEN VersionEnds("panic", "no_name")
                     ELSE /\ index_file' = IF sel.assets
                                              THEN Some(RequiredIndex(manifest.index_version))
                                              ELSE None
                          /\ files' = [status |-> "ok", jar |-> jar.v,
                                        manifest |-> IF sel.assets
                                                        THEN manifest_file.v
                                                        ELSE <<>>]
                          /\ pc' = "jar_start"
                          /\ UNCHANGED <<result, cause>>
    /\ UNCHANGED <<mode, sel, ignore, out, dirs, log, lookup, index, store, todo, attempts,
                   hashed_output, hashedResult, input, fsDirs, minecraft, version>>
    /\ UNCHANGED jarVars

\* VersionAfterJar with the result of extract_jar dropped.
VersionAfterJar_IgnoreError ==
    /\ mode = "version"
    /\ pc = "jar_ret"
    /\ IF index_file.some
          THEN pc' = "hashed_start" /\ UNCHANGED <<result, cause>>
          ELSE pc' = "done" /\ result' = "ok" /\ UNCHANGED cause
    /\ UNCHANGED <<mode, sel, ignore, out, dirs, log, input, fsDirs, minecraft, version, files>>
    /\ UNCHANGED hashedVars
    /\ UNCHANGED jarVars

\* `jar::extract_jar(..)?` and what follows it: an Err ends the run; with
\* an index, hashed extraction is called next.
VersionAfterJar ==
    /\ mode = "version"
    /\ pc = "jar_ret"
    /\ IF jarResult = "err"
          THEN pc' = "done" /\ result' = "err" /\ cause' = "extract_jar"
       ELSE IF index_file.some
          THEN pc' = "hashed_start" /\ UNCHANGED <<result, cause>>
       ELSE pc' = "done" /\ result' = "ok" /\ UNCHANGED cause
    /\ UNCHANGED <<mode, sel, ignore, out, dirs, log, input, fsDirs, minecraft, version, files>>
    /\ UNCHANGED hashedVars
    /\ UNCHANGED jarVars

\* The index files of version runs: those over the logical paths a
\* container can provide as well.
VersionIndexes == { idx \in Indexes : DOMAIN idx \subseteq {<<"x">>, <<"y">>} }

\* hashed::extract_hashed_assets(hashed_assets_dir, output_dir, index,
\* ignore_top_level) up to its loop: the output directory, and the index
\* file read and parsed.
ExtractHashedAssets ==
    /\ pc = "hashed_start"
    /\ hashed_output' = IF ignore THEN <<>> ELSE <<"assets">>
    /\ \/ /\ \E status \in {"err", "panic"} : hashedResult' = status
          /\ pc' = "h_ret"
          /\ UNCHANGED <<index, store, todo>>
       \/ /\ \E parsed \in VersionIndexes, objects \in Stores :
                /\ index' = parsed
                /\ store' = objects
                /\ todo' = DOMAIN parsed
          /\ pc' = "h_loop"
          /\ UNCHANGED hashedResult
    /\ attempts' = 0
    /\ UNCHANGED <<mode, result, sel, ignore, out, dirs, log, lookup, index_file>>
    /\ UNCHANGED jarVars
    /\ UNCHANGED versionVars

\* `hashed::extract_hashed_assets(..)?` and the final Ok(()).
VersionAfterHashed ==
    /\ mode = "version"
    /\ pc = "h_ret"
    /\ pc' = "done"
    /\ result' = hashedResult
    /\ cause' = IF hashedResult = "ok" THEN cause ELSE "extract_hashed_assets"
    /\ UNCHANGED <<mode, sel, ignore, out, dirs, log, input, fsDirs, minecraft, version, files>>
    /\ UNCHANGED hashedVars
    /\ UNCHANGED jarVars

\* The entries the containers of version runs are built from.
VersionEntryPool ==
    { File(<<"assets", "x">>, "J1"),
      File(<<"data", "y">>, "J2"),
      Dir(<<"assets">>) }

\* A run of the `version` subcommand on a parsed version directory.
InitVersion ==
    /\ mode = "version"
    /\ pc = "v_start"
    /\ result = "none"
    /\ sel \in Selections
    /\ ignore \in BOOLEAN
    /\ jarState \in {"ok", "missing", "corrupt"}
    /\ archive \in { a \in Archives : \A k \in DOMAIN a : a[k] \in VersionEntryPool }
    /\ jarState # "ok" => archive = <<>>
    /\ top_level_dir = None
    /\ i = 0
    /\ jarResult = "none"
    /\ out = <<>>
    /\ dirs = {}
    /\ log = <<>>
    /\ HashedIdle
    /\ input = <<"v1">>
    /\ fsDirs = {<<"/", "home", ".minecraft", "versions", "v1">>}
    /\ minecraft = "dir"
    /\ version = Version_parse(input, fsDirs, minecraft)
    /\ files = NoFiles
    /\ cause = "none"

NextVersion ==
    \/ VersionPrepare
    \/ ExtractJarOpen
    \/ ExtractJarEntry
    \/ ExtractJarEnd
    \/ VersionAfterJar
    \/ ExtractHashedAssets
    \/ HashedExtractEntry
    \/ HashedExtractEnd
    \/ VersionAfterHashed

SpecVersion == InitVersion /\ [][NextVersion]_vars

----------------------------------------------------------------------------
(* Properties of hashed extraction *)

\* The positions in the log of the hashed extractor's calls of kind `op`
\* for the entry at `file_path`.
HashedCalls(op, file_path) ==
    { n \in 1..Len(log) :
        log[n].by = "hashed" /\ log[n].op = op /\ log[n].path = file_path }

\* The read attempts made so far.
ReadAttempts == { n \in 1..Len(log) : log[n].by = "hashed" /\ log[n].op = "read" }

\* The progress stream refused the last event: the one failure the loop
\* of hashed extraction passes on to its caller.
ProgressFailed ==
    /\ log # <<>>
    /\ log[Len(log)].by = "hashed"
    /\ log[Len(log)].op = "progress"
    /\ ~log[Len(log)].ok

\* The directory hashed extraction writes below: the output directory, or
\* its `assets` folder unless ignore_top_level is set.
OutputRoot == IF ignore THEN <<>> ELSE <<"assets">>

\* C1: as long as the progress stream takes every event, hashed extraction
\* over an index of N logical paths makes exactly N extraction attempts,
\* one read of objects/<hash[0:2]>/<hash> per entry, whichever reads,
\* directory creations and writes fail: the loop ends before the N-th
\* attempt only when a progress write fails, never because an entry failed.
C1_EveryEntryAttempted ==
    /\ Cardinality(ReadAttempts) <= attempts
    /\ attempts + Cardinality(todo) = Cardinality(DOMAIN index)
    /\ \A n \in ReadAttempts :
          /\ log[n].path \in DOMAIN index \ todo
          /\ log[n].obj = StoredAt(index[log[n].path])
          /\ Cardinality(HashedCalls("read", log[n].path)) = 1
    /\ hashedResult = "ok" =>
          /\ Cardinality(ReadAttempts) = Cardinality(DOMAIN index)
          /\ \A file_path \in DOMAIN index : HashedCalls("read", file_path) # {}
    /\ (hashedResult # "none" /\ Cardinality(ReadAttempts) < Cardinality(DOMAIN index))
          => ProgressFailed

\* C1's case: of two entries the first could not be read and the second
\* could not be written, and both were attempted.
C1_Witness ==
    /\ Cardinality(DOMAIN index) = 2
    /\ pc = "done"
    /\ result = "ok"
    /\ \E n, m \in 1..Len(log) :
          /\ n < m
          /\ log[n].op = "read" /\ ~log[n].ok
          /\ log[m].op = "write" /\ ~log[m].ok
          /\ log[n].idx = 1 /\ log[m].idx = 2

\* C2: when hashed extraction has finished, every entry whose object is
\* readable at objects/<hash[0:2]>/<hash> and whose output could be written
\* has a file at <output root>/<logical path> holding the object's bytes,
\* no entry whose object is missing had anything created or written for
\* it, and the run returned Ok.
C2_ReadableObjectsExtracted ==
    /\ (hashedResult # "none" /\ ReadAttempts # {}) =>
          hashedResult = "ok" \/ ProgressFailed
    /\ hashedResult = "ok" =>
        /\ \A file_path \in DOMAIN index :
              LET source == StoredAt(index[file_path])
                  target == OutputRoot \o file_path
              IN  IF source \in DOMAIN store
                      THEN /\ Cardinality(HashedCalls("write", target)) = 1
                           /\ \A n \in HashedCalls("write", target) :
                                 log[n].ok =>
                                     /\ target \in DOMAIN out
                                     /\ out[target] = store[source]
                                     /\ out[target] = ObjectBytes(index[file_path])
                      ELSE /\ HashedCalls("write", target) = {}
                           /\ target \notin DOMAIN out
        /\ pc = "done" => result = "ok"

\* C2's case: of two entries one object is missing; the other was
\* extracted with its bytes and the run returned Ok.
C2_Witness ==
    /\ pc = "done"
    /\ result = "ok"
    /\ Cardinality(DOMAIN index) = 2
    /\ Cardinality(DOMAIN store) = 1
    /\ Cardinality(DOMAIN out) = 1
    /\ \E file_path \in DOMAIN index :
          /\ StoredAt(index[file_path]) \in DOMAIN store
          /\ OutputRoot \o file_path \in DOMAIN out
          /\ out[OutputRoot \o file_path] = ObjectBytes(index[file_path])
    /\ \E file_path \in DOMAIN index : StoredAt(index[file_path]) \notin DOMAIN store

----------------------------------------------------------------------------
(* Properties of extract_jar *)

\* The positions in the log of the calls extract_jar made for entry k.
JarEvents(k) == { n \in 1..Len(log) : log[n].by = "jar" /\ log[n].idx = k }

\* The calls that create a directory or write a file.
WriteOps == {"mkdir", "create", "copy", "chmod"}

\* Whether extract_jar opened the container.
Opened == \E n \in 1..Len(log) : log[n] = Event("jar", 0, "open", <<>>, TRUE)

\* Entry k's enclosed path with the detected top-level directory removed.
RootStripped(k) ==
    LET name == archive[k].name
    IN  IF top_level_dir.some /\ name # <<>> /\ name[1] = top_level_dir.v[1]
            THEN Tail(name)
            ELSE name

\* Entry k lies in a subtree the selection enables.
InSubtree(k, subtree) ==
    /\ RootStripped(k) # <<>>
    /\ RootStripped(k)[1] = subtree
    /\ sel[subtree]

Enabled(k) ==
    /\ enclosed_name(archive[k].name).some
    /\ InSubtree(k, "assets") \/ InSubtree(k, "data")

\* Where an enabled entry is to land: below its subtree's folder, or
\* directly in the output directory under ignore_top_level.
Expected(k) == IF ignore THEN Tail(RootStripped(k)) ELSE RootStripped(k)

\* The path extract_jar announced for entry k on the progress stream.
Announced(k) ==
    { log[n].path : n \in { m \in JarEvents(k) : log[m].op = "progress" } }

\* C3: extract_jar with selection {assets: false, data: false} returns Ok
\* without opening the container, creating a directory or writing a file,
\* whatever the container's state and whatever ignore_top_level is.
C3_EmptySelectionIsNoOp ==
    (~sel.assets /\ ~sel.data) =>
        /\ log = <<>>
        /\ out = <<>>
        /\ dirs = {}
        /\ jarResult \in {"none", "ok"}
        /\ pc = "jar_ret" => jarResult = "ok"
        /\ pc = "done" => result = "ok"

\* C3's case: an empty selection on a missing container has returned Ok.
C3_Witness ==
    /\ ~sel.assets /\ ~sel.data
    /\ jarState = "missing"
    /\ ignore
    /\ pc = "done"
    /\ result = "ok"

\* C4 as stated: every entry extracted from the enabled `assets` subtree
\* is announced and written at a path without a leading `assets` segment
\* under ignore_top_level, and with one otherwise.
C4_Original ==
    \A k \in 1..Len(archive) :
        (enclosed_name(archive[k].name).some /\ InSubtree(k, "assets")) =>
            \A p \in Announced(k) :
                IF ignore
                    THEN ~StartsWith(p, <<"assets">>)
                    ELSE StartsWith(p, <<"assets">>)

\* C4 amended: under ignore_top_level exactly one leading `assets` segment
\* is removed from the root-stripped path, so the output path starts with
\* `assets` only if the entry's path repeats the segment (`assets/assets/x`
\* lands at `assets/x`); without the flag the root-stripped path is kept
\* and starts with `assets`.
C4_OneSegmentStripped ==
    \A k \in 1..Len(archive) :
        (enclosed_name(archive[k].name).some /\ InSubtree(k, "assets")) =>
            \A p \in Announced(k) :
                /\ p = IF ignore THEN Tail(RootStripped(k)) ELSE RootStripped(k)
                /\ ~ignore => StartsWith(p, <<"assets">>)
                /\ ignore =>
                      (StartsWith(p, <<"assets">>)
                         <=> StartsWith(RootStripped(k), <<"assets", "assets">>))

\* C4's case: `assets/assets/x` was written to `assets/x` under
\* ignore_top_level.
C4_Witness ==
    /\ ignore
    /\ sel.assets
    /\ \E k \in 1..Len(archive) :
          /\ archive[k].name = <<"assets", "assets", "x">>
          /\ \E n \in JarEvents(k) :
                log[n] = Event("jar", k, "copy", <<"assets", "x">>, TRUE)

\* C5: the detected top-level directory is removed from every entry's
\* path whatever ignore_top_level is, and an entry the loop has processed
\* caused a directory creation or a file write exactly if its root-stripped
\* path starts with a subtree the selection enables; a pass that returns Ok
\* leaves exactly the enabled file entries in the output directory.
C5_OnlyEnabledSubtreesExtracted ==
    /\ \A n \in 1..Len(log) :
          (log[n].by = "jar" /\ log[n].op \in WriteOps) => Enabled(log[n].idx)
    /\ \A k \in 1..i :
          IF Enabled(k)
              THEN \E n \in JarEvents(k) :
                     log[n] = Event("jar", k,
                                    IF archive[k].is_dir THEN "mkdir" ELSE "copy",
                                    Expected(k), TRUE)
              ELSE JarEvents(k) = {}
    /\ (jarResult = "ok" /\ Opened) =>
          DOMAIN out = { Expected(k) :
                           k \in { j \in 1..Len(archive) :
                                      Enabled(j) /\ ~archive[j].is_dir } }
    /\ \A f \in SUBSET {"root", "assets", "data"} :
          (/\ Opened
           /\ archive # <<>>
           /\ \A k \in 1..Len(archive) :
                 Len(archive[k].name) >= 2 /\ archive[k].name[1] \in f
                   /\ enclosed_name(archive[k].name).some
           /\ Cardinality(f) = 1)
          => top_level_dir.some /\ top_level_dir.v[1] \in f

\* C5's case: `root/assets/x` and `root/data/y`, assets alone selected,
\* ignore_top_level set: the output directory holds `x` and nothing else.
C5_Witness ==
    /\ archive = <<File(<<"root", "assets", "x">>, "J4"),
                   File(<<"root", "data", "y">>, "J5")>>
    /\ sel = [assets |-> TRUE, data |-> FALSE]
    /\ ignore
    /\ pc = "done"
    /\ result = "ok"
    /\ DOMAIN out = {<<"x">>}
    /\ out[<<"x">>] = "J4"

\* A failing call is the last call of the pass, the pass returns Err, and
\* no entry after the failing one is touched.
FailureEndsPass ==
    /\ \A n \in 1..Len(log) :
          (log[n].by = "jar" /\ ~log[n].ok) =>
              /\ n = Len(log)
              /\ pc \in {"jar_ret", "done"}
              /\ jarResult = "err"
    /\ jarResult = "err" =>
          /\ log # <<>>
          /\ ~log[Len(log)].ok
          /\ \A k \in 1..Len(archive) : k > i + 1 => JarEvents(k) = {}
    /\ pc = "done" => result = jarResult

\* Entry k was extracted: announced, then created or copied without error.
Processed(k) ==
    \E n \in JarEvents(k) :
        /\ log[n].op = IF archive[k].is_dir THEN "mkdir" ELSE "copy"
        /\ log[n].ok

\* C10 as stated: every failure ends the pass with an error, and a pass
\* that returns Ok has dropped no entry of an enabled subtree.
C10_Original ==
    /\ FailureEndsPass
    /\ (jarResult = "ok" /\ Opened) =>
          \A k \in 1..Len(archive) :
              (InSubtree(k, "assets") \/ InSubtree(k, "data")) => Processed(k)

\* C10 amended: every failure to open the container, to read an entry, to
\* write progress, to create a directory, to write or to set permissions
\* ends the pass with an error and no later entry is processed; but an
\* entry whose name is not an enclosed path is skipped without any error
\* and the pass goes on, so a pass that returns Ok has extracted exactly
\* the enabled entries with an enclosed name.
C10_FailuresFatalExceptBadNames ==
    /\ FailureEndsPass
    /\ (jarResult = "ok" /\ Opened) =>
          \A k \in 1..Len(archive) :
              IF enclosed_name(archive[k].name).some
                  THEN (InSubtree(k, "assets") \/ InSubtree(k, "data"))
                         => Processed(k)
                  ELSE JarEvents(k) = {}

\* C10's case: the first of two enabled entries failed and the second was
\* never touched.
C10_Witness ==
    /\ Len(archive) = 2
    /\ Enabled(1) /\ Enabled(2)
    /\ jarResult = "err"
    /\ JarEvents(1) # {}
    /\ JarEvents(2) = {}
    /\ pc = "done"

----------------------------------------------------------------------------
(* Properties of Version::parse and of the version run *)

\* The versions root on this platform.
VersionsRoot == <<"/", "home", ".minecraft", "versions">>

\* C6: Version::parse takes the specifier itself when it is an existing
\* directory, even if the versions root holds a directory of that name;
\* otherwise <versions root>/<specifier> when that is an existing
\* directory; otherwise, and when there is no versions root, it fails with
\* InvalidVersion carrying the specifier.  The jar and the manifest are
\* <dir>/<last component of dir>.jar and .json, whatever the specifier was;
\* a directory without a name of its own (`..`) has neither.
C6_ResolutionOrder ==
    pc # "parse" =>
        /\ IF input \in fsDirs
              THEN version.ok /\ version.dir = input
           ELSE IF /\ minecraft = "dir"
                   /\ input[1] # "/"
                   /\ VersionsRoot \o input \in fsDirs
              THEN version.ok /\ version.dir = VersionsRoot \o input
           ELSE /\ ~version.ok
                /\ version.err = input
                /\ pc = "done"
                /\ result = "err"
        /\ (pc = "done" /\ version.ok) =>
              LET dir == version.dir
                  last == dir[Len(dir)]
              IN  IF last = ".."
                      THEN files.status = "panic"
                      ELSE /\ files.status = "ok"
                           /\ files.jar = dir \o << <<last, "jar">> >>
                           /\ files.manifest = dir \o << <<last, "json">> >>

\* C6's case: `d/v1` exists both as given and below the versions root; the
\* given path is returned and the files are named after `v1`.
C6_Witness ==
    /\ pc = "done"
    /\ input = <<"d", "v1">>
    /\ minecraft = "dir"
    /\ {<<"d", "v1">>, VersionsRoot \o <<"d", "v1">>} \subseteq fsDirs
    /\ version.dir = <<"d", "v1">>
    /\ files.jar = <<"d", "v1", <<"v1", "jar">> >>
    /\ files.manifest = <<"d", "v1", <<"v1", "json">> >>

\* The positions in the log of the calls of one extractor.
CallsBy(who) == { n \in 1..Len(log) : log[n].by = who }

C8_ArchiveThenHashed ==
    /\ \A n, m \in 1..Len(log) :
          (n < m /\ log[n].by = "hashed") => log[m].by = "hashed"
    /\ (CallsBy("hashed") # {} \/ hashedResult # "none"
           \/ pc \in {"hashed_start", "h_loop", "h_ret"}) =>
          /\ jarResult = "ok"
          /\ i = Len(archive)
          /\ sel.assets
    /\ jarResult = "err" =>
          /\ CallsBy("hashed") = {}
          /\ pc = "done" => result = "err"
    /\ \A n \in CallsBy("hashed") :
          (log[n].op = "write" /\ log[n].ok) =>
              LET target == log[n].path
                  file_path == SubSeq(target, Len(OutputRoot) + 1, Len(target))
              IN  /\ file_path \in DOMAIN index
                  /\ target \in DOMAIN out
                  /\ out[target] = ObjectBytes(index[file_path])

\* C8's case: archive extraction wrote a path, hashed extraction wrote it
\* again, and the file holds the object's bytes.
C8_Witness ==
    /\ pc = "done"
    /\ result = "ok"
    /\ \E n \in CallsBy("jar"), m \in CallsBy("hashed") :
          /\ log[n].op = "copy" /\ log[n].ok
          /\ log[m].op = "write" /\ log[m].ok
          /\ log[n].path = log[m].path
          /\ out[log[m].path] \in {"O1", "O2"}

\* C9: a version run with data alone selected gets to archive extraction
\* whether or not a manifest or a hashed-assets directory exists.
C9_DataOnlyReachesArchive ==
    (~sel.assets /\ sel.data /\ pc = "done") => CallsBy("jar") # {}

----------------------------------------------------------------------------
(* Properties of the index lookup and of progress reporting *)

\* Nothing has been attempted and nothing put out.
NothingDone ==
    /\ log = <<>>
    /\ out = <<>>
    /\ dirs = {}
    /\ attempts = 0

\* The lookup ended the run with this status, before anything was done.
LookupFails(status) ==
    /\ index_file = None
    /\ hashedResult = status
    /\ pc \in {"h_ret", "done"}
    /\ NothingDone

\* C11: with an input directory, the index file is picked by the kind of
\* --index: a path that is a file is used as it is; a label gives
\* <indexes dir>/<label>.json, and a panic when that is no file; with no
\* --index the last entry read_dir lists is used, a panic when it lists
\* none (an Err when the directory cannot be read).  The file is picked
\* before anything is put out, and a run that fails for any reason but a
\* failed progress write (no index file, an unreadable or unparsable
\* one) has made no attempt and written nothing.
C11_IndexPickedByInputKind ==
    /\ (pc # "h_start" /\ lookup.dir) =>
          LET arg == lookup.arg
              listing == lookup.listing
              entries == listing.files
          IN  IF arg.some /\ arg.v.kind = "file"
                  THEN index_file = Some(<<"given", arg.v.label>>)
              ELSE IF arg.some
                  THEN IF listing.ok /\
                          \E k \in 1..Len(entries) : entries[k] = arg.v.label \o <<"json">>
                          THEN index_file = Some(<<"indexes", arg.v.label \o <<"json">> >>)
                          ELSE LookupFails("panic")
              ELSE IF ~listing.ok THEN LookupFails("err")
              ELSE IF entries = <<>> THEN LookupFails("panic")
              ELSE index_file = Some(<<"indexes", entries[Len(entries)]>>)
    /\ pc \in {"h_start", "h_load"} => NothingDone
    /\ (hashedResult \in {"err", "panic"} /\ ~ProgressFailed) => NothingDone

\* C11's case: the label `9` names no file of an indexes directory that
\* holds two others, and the run has panicked.
C11_Witness ==
    /\ pc = "done"
    /\ result = "panic"
    /\ lookup.dir
    /\ lookup.arg = Some([kind |-> "version", label |-> <<"9">>])
    /\ Len(lookup.listing.files) = 2
    /\ index_file = None

\* The positions in the log of the progress messages for the k-th entry.
ProgressOf(who, k) ==
    { n \in 1..Len(log) : log[n].by = who /\ log[n].idx = k /\ log[n].op = "progress" }

\* Every call that reads, creates or writes for an entry comes after a
\* progress message for that entry that was written.
ProgressComesFirst(who, ops) ==
    \A n \in 1..Len(log) :
        (log[n].by = who /\ log[n].op \in ops) =>
            \E m \in ProgressOf(who, log[n].idx) : m < n /\ log[m].ok

\* The hashed extractor writes progress (k, N) once for each entry it
\* comes to, k counting up from 1 and N the number of entries of the
\* index, before it reads the object.
HashedProgress ==
    /\ \A n \in 1..Len(log) :
          (log[n].by = "hashed" /\ log[n].op = "progress") =>
              /\ log[n].total = Cardinality(DOMAIN index)
              /\ log[n].idx \in 1..attempts
    /\ \A k \in 1..attempts : Cardinality(ProgressOf("hashed", k)) = 1
    /\ \A k, l \in 1..attempts :
          k < l => \A n \in ProgressOf("hashed", k), m \in ProgressOf("hashed", l) : n < m
    /\ ProgressComesFirst("hashed", {"read", "mkdir", "write"})
    /\ hashedResult = "ok" => attempts = Cardinality(DOMAIN index)

\* C12 as stated: extract_jar writes exactly one progress message for
\* each entry of the container it has gone past, before creating or
\* writing anything for it, and the hashed extractor writes (i, N) before
\* its i-th attempt.
C12_Original ==
    /\ \A k \in 1..i : Cardinality(ProgressOf("jar", k)) = 1
    /\ ProgressComesFirst("jar", WriteOps)
    /\ HashedProgress

\* C12 amended: extract_jar writes exactly one progress message for each
\* entry it extracts, directories included, and none for an entry it
\* skips (a name that is not enclosed, a path outside the enabled
\* subtrees); the message comes before any directory is created or file
\* written for that entry.  The hashed extractor writes (i, N) before its
\* i-th attempt, i counting up from 1 and N staying the size of the index.
C12_ProgressForExtractedEntries ==
    /\ \A k \in 1..Len(archive) :
          /\ Cardinality(ProgressOf("jar", k)) <= 1
          /\ ProgressOf("jar", k) # {} => Enabled(k)
          /\ k <= i => (ProgressOf("jar", k) # {} <=> Enabled(k))
    /\ ProgressComesFirst("jar", WriteOps)
    /\ HashedProgress

\* C12's case: of a directory and a file outside the selection, the
\* directory was announced and created and the file passed over in
\* silence.
C12_Witness ==
    /\ pc = "done"
    /\ result = "ok"
    /\ Len(archive) = 2
    /\ \E k, l \in 1..2 :
          /\ archive[k].is_dir
          /\ Processed(k)
          /\ ProgressOf("jar", k) # {}
          /\ ~Enabled(l)
          /\ JarEvents(l) = {}

----------------------------------------------------------------------------
(* Properties of where extract_jar writes *)

\* A path relative to the output directory that leaves it: absolute, or
\* climbing through more `..` than it has gone down.
LeavesRoot(path) ==
    \/ path # <<>> /\ path[1] = "/"
    \/ \E n \in 1..Len(path) :
          Cardinality({k \in 1..n : path[k] = ".."})
            > Cardinality({k \in 1..n : path[k] # ".."})

\* `suffix` is what is left of `path` when leading segments are dropped.
IsSuffix(suffix, path) ==
    /\ Len(suffix) <= Len(path)
    /\ suffix = SubSeq(path, Len(path) - Len(suffix) + 1, Len(path))

\* C13: every directory extract_jar creates and every file it writes lies
\* under the output directory; an entry whose name is absolute or climbs
\* out through `..` has nothing created or written for it; and the output
\* path of any other entry is the output directory joined with a suffix of
\* the entry's path.
C13_WritesUnderOutputRoot ==
    /\ \A n \in 1..Len(log) :
          (log[n].by = "jar" /\ log[n].op \in WriteOps) =>
              /\ ~LeavesRoot(log[n].path)
              /\ ~LeavesRoot(archive[log[n].idx].name)
              /\ log[n].op # "mkdir" => IsSuffix(log[n].path, archive[log[n].idx].name)
    /\ \A path \in DOMAIN out : ~LeavesRoot(path)
    /\ \A dir \in dirs : ~LeavesRoot(dir)

====
